---- MODULE Spec2Model ----
(***************************************************************************)
(* Streaming playback pipeline of sarpedon: app.js (page load, WebSocket   *)
(* handlers, chunk classification, hand-off to the worklet port) and       *)
(* player-processor.js (PlayerProcessor: port.onmessage append, process()  *)
(* drain into the output planes).                                          *)
(*                                                                         *)
(* A sample is the 32-bit pattern of a Float32 element, written as the     *)
(* little-endian integer of its four bytes; 0 is the pattern of 0.0.       *)
(***************************************************************************)
EXTENDS Integers, Sequences, FiniteSets, TLC

VARIABLES
    audio,      \* outcome of initAudio: "unloaded", "ready", "nomodule", "noctx"
    wsState,    \* the socket held in `ws`: "none", "connecting", "open", "closed"
    conn,       \* textContent of the #conn element
    timers,     \* pending setTimeout(startWS, 1000) callbacks
    portQ,      \* messages posted to playerNode.port and not yet delivered
    buffer,     \* PlayerProcessor.buffer
    out,        \* outputs[0] of the process() call that ran last, else <<>>
    last,       \* the handler that ran last, its inputs and what it did
    pre,        \* PlayerProcessor.buffer as the last handler found it
    delivered,  \* samples of every message posted to the port, in posting order
    emitted,    \* samples read back from the planes of every non-underrun tick
    nAppended,  \* number of samples port.onmessage has appended
    nWritten,   \* number of samples non-underrun ticks have consumed
    badSeen,    \* a tagged or undecodable chunk arrived on the current socket
    sockets,    \* sockets made by startWS that are connecting or open
    prevDelay   \* delay of the reconnect the last close scheduled, 0 once a socket has opened

vars == <<audio, wsState, conn, timers, portQ, buffer, out, last, pre,
          delivered, emitted, nAppended, nWritten, badSeen, sockets, prevDelay>>

----------------------------------------------------------------------------
(* Bounds *)

MaxChunkBytes == 8      \* longest binary chunk the socket delivers
MaxSamples    == 4      \* samples posted to the port over a run
MaxPort       == 2      \* port messages in flight
MaxChannels   == 2      \* channel counts the device requests: 1..MaxChannels
MaxFrames     == 2      \* frame counts the device requests: 1..MaxFrames

(* Program constants *)

TagO == 79              \* "O"
TagP == 80              \* "P"
BytesPerElement == 4    \* Float32Array.BYTES_PER_ELEMENT
ReconnectDelay == 1000  \* setTimeout(startWS, 1000)

Unwritten == -1         \* marks a plane slot process() has not assigned
Silence   == 0          \* the pattern of 0.0

----------------------------------------------------------------------------
(* Inputs *)

\* Chunks shorter than one element: every string over the two tag bytes.
ShortChunks ==
    UNION { [1..n -> {TagO, TagP}] : n \in 0..(BytesPerElement - 1) }

\* Longer chunks: each 4-byte group is "O" or "P", then "P", then two zero
\* bytes, so a group decodes to one of two samples and a chunk is tagged
\* exactly when it starts with "O".
ByteAt(i) ==
    IF (i - 1) % BytesPerElement = 0 THEN {TagO, TagP}
    ELSE IF (i - 1) % BytesPerElement = 1 THEN {TagP}
    ELSE {0}

ChunksOfLen(n) ==
    { c \in [1..n -> {0, TagO, TagP}] : \A i \in 1..n : c[i] \in ByteAt(i) }

Chunks ==
    ShortChunks \cup UNION { ChunksOfLen(n) : n \in BytesPerElement..MaxChunkBytes }

ChannelCounts == 1..MaxChannels
FrameCounts   == 1..MaxFrames

TextKinds == {"spectrogram", "other", "badmatrix", "invalid"}

----------------------------------------------------------------------------
(* app.js: ws.onmessage, binary branch *)

\* if (ab.byteLength >= 2) { header === "OP" }
IsOpus(ab) == Len(ab) >= 2 /\ ab[1] = TagO /\ ab[2] = TagP

\* One Float32 element read from four bytes, little-endian.
Float32At(ab, k) ==
    ab[BytesPerElement * k + 1]
      + 256 * ab[BytesPerElement * k + 2]
      + 65536 * ab[BytesPerElement * k + 3]
      + 16777216 * ab[BytesPerElement * k + 4]

\* new Float32Array(ab) throws a RangeError unless byteLength is a multiple
\* of the element size.
Float32ArrayThrows(ab) == Len(ab) % BytesPerElement # 0

\* new Float32Array(ab): a view of byteLength / 4 elements.
Float32Array(ab) == [k \in 1..(Len(ab) \div BytesPerElement) |-> Float32At(ab, k - 1)]

PcmMessage(samples) == [type |-> "pcm", buffer |-> samples]

\* Variant: the socket is given up after a chunk that was not posted.
ClosedOnChunkError(state, outcome) ==
    IF outcome = "posted" THEN state ELSE "closed"

\* No path of ws.onmessage closes the socket or detaches the handler: the
\* tagged branch returns, and an exception rejects the async handler's
\* promise only.
SocketAfterMessage(state, outcome) == state

----------------------------------------------------------------------------
(* player-processor.js *)

\* Variant: the two set() offsets swapped, incoming placed before the old data.
PrependSamples(buf, incoming) == incoming \o buf

\* Variant: a retention cap that keeps only the newest two samples.
AppendSamplesCapped(buf, incoming) ==
    LET all == buf \o incoming IN
    IF Len(all) > 2 THEN SubSeq(all, Len(all) - 1, Len(all)) ELSE all

\* newBuf.set(this.buffer, 0); newBuf.set(incoming, this.buffer.length)
AppendSamples(buf, incoming) == buf \o incoming

\* Variant: <= in place of <, an exact fit taken for an underrun.
UnderrunInclusive(buf, channels, frames) == Len(buf) <= frames * channels

\* if (this.buffer.length < frames * channels)
Underrun(buf, channels, frames) == Len(buf) < frames * channels

\* The arrays of outputs[0] as handed to process(), no slot assigned yet.
FreshPlanes(channels, frames) ==
    [ch \in 0..(channels - 1) |-> [f \in 0..(frames - 1) |-> Unwritten]]

\* Variant: only the first plane is filled.
FillSilenceFirstPlane(planes, ch, channels) ==
    [planes EXCEPT ![0] = [f \in DOMAIN planes[0] |-> Silence]]

\* for (ch ...) out[ch].fill(0.0)
RECURSIVE FillSilence(_, _, _)
FillSilence(planes, ch, channels) ==
    IF ch >= channels THEN planes
    ELSE FillSilence([planes EXCEPT ![ch] = [f \in DOMAIN planes[ch] |-> Silence]],
                     ch + 1, channels)

\* Variant: the buffer read as planar, plane after plane, not interleaved.
FillPlanar(planes, buf, f, ch, bi, channels, frames) ==
    [planes |-> [c \in 0..(channels - 1) |->
                    [g \in 0..(frames - 1) |-> buf[c * frames + g + 1]]],
     bi |-> channels * frames]

\* for (f ...) for (ch ...) out[ch][f] = this.buffer[bi++]
\* yields the planes and the final bi.
RECURSIVE FillFromBuffer(_, _, _, _, _, _, _)
FillFromBuffer(planes, buf, f, ch, bi, channels, frames) ==
    IF f >= frames THEN [planes |-> planes, bi |-> bi]
    ELSE IF ch >= channels
         THEN FillFromBuffer(planes, buf, f + 1, 0, bi, channels, frames)
         ELSE FillFromBuffer([planes EXCEPT ![ch][f] = buf[bi + 1]],
                             buf, f, ch + 1, bi + 1, channels, frames)

\* Variant: the consumed samples are never dropped.
KeepConsumed(buf, bi) == buf

\* if (bi < this.buffer.length) subarray(bi) else new Float32Array(0)
DropConsumed(buf, bi) ==
    IF bi < Len(buf) THEN SubSeq(buf, bi + 1, Len(buf)) ELSE <<>>

\* Variant: the node asks to be torn down.
ProcessReturnsFalse == FALSE

\* return true
ProcessReturn == TRUE

\* Where a handler runs. PlayerProcessor is an AudioWorkletProcessor: its
\* constructor, its port.onmessage and process() all run in the
\* AudioWorkletGlobalScope, on the audio rendering thread. The handlers of
\* app.js run on the page's main thread.
Context(op) == IF op \in {"portmsg", "process"} THEN "render" ELSE "delivery"

----------------------------------------------------------------------------
(* Observation of the planes: plane[ch][f] read back at position          *)
(* f*channels+ch.                                                          *)

Interleave(planes, channels, frames) ==
    [i \in 1..(channels * frames) |->
        planes[(i - 1) % channels][(i - 1) \div channels]]

Idle(op) ==
    [op |-> op, kind |-> "none", threw |-> "none", note |-> "none",
     tagged |-> FALSE, aligned |-> FALSE, posted |-> FALSE,
     channels |-> 0, frames |-> 0, underrun |-> FALSE, ret |-> FALSE]

----------------------------------------------------------------------------
Init ==
    /\ audio = "unloaded"
    /\ wsState = "none"
    /\ conn = ""
    /\ timers = 0
    /\ portQ = <<>>
    /\ buffer = <<>>
    /\ out = <<>>
    /\ last = Idle("init")
    /\ pre = <<>>
    /\ delivered = <<>>
    /\ emitted = <<>>
    /\ nAppended = 0
    /\ nWritten = 0
    /\ badSeen = FALSE
    /\ sockets = 0
    /\ prevDelay = 0

\* startWS(): ws = new WebSocket(WS_URL)
StartWS ==
    /\ wsState' = "connecting"
    /\ sockets' = sockets + 1
    /\ badSeen' = FALSE

\* window "load" listener: await initAudio(); startWS().
\* "noctx": the AudioContext constructor throws, the listener rejects before
\* startWS. "nomodule": addModule rejects, initAudio returns with playerNode
\* undefined. "ready": playerNode is created and connected.
PageLoad(outcome) ==
    /\ audio = "unloaded"
    /\ audio' = outcome
    /\ IF outcome = "noctx"
       THEN /\ UNCHANGED <<wsState, badSeen, sockets>>
            /\ last' = [Idle("load") EXCEPT !.threw = "Error"]
       ELSE /\ StartWS
            /\ last' = [Idle("load") EXCEPT
                           !.note = IF outcome = "nomodule" THEN "error" ELSE "log"]
    /\ pre' = buffer
    /\ out' = <<>>
    /\ UNCHANGED <<conn, timers, portQ, buffer, delivered, emitted,
                   nAppended, nWritten, prevDelay>>

\* ws.onopen
WsOnOpen ==
    /\ wsState = "connecting"
    /\ wsState' = "open"
    /\ conn' = "Connected"
    /\ prevDelay' = 0
    /\ last' = [Idle("open") EXCEPT !.note = "log"]
    /\ pre' = buffer
    /\ out' = <<>>
    /\ UNCHANGED <<audio, timers, portQ, buffer, delivered, emitted,
                   nAppended, nWritten, badSeen, sockets>>

\* ws.onclose
WsOnClose ==
    /\ wsState \in {"connecting", "open"}
    /\ wsState' = "closed"
    /\ conn' = "Disconnected"
    /\ sockets' = sockets - 1
    /\ timers' = timers + 1
    /\ prevDelay' = ReconnectDelay
    /\ last' = [Idle("close") EXCEPT !.note = "log"]
    /\ pre' = buffer
    /\ out' = <<>>
    /\ UNCHANGED <<audio, portQ, buffer, delivered, emitted,
                   nAppended, nWritten, badSeen>>

\* Variant: onerror schedules a reconnect of its own.
RetryOnError(t) == t + 1

\* ws.onerror only logs: it sets no timer.
TimersAfterError(t) == t

\* ws.onerror
WsOnError ==
    /\ wsState \in {"connecting", "open"}
    /\ timers' = TimersAfterError(timers)
    /\ last' = [Idle("error") EXCEPT !.note = "error"]
    /\ pre' = buffer
    /\ out' = <<>>
    /\ UNCHANGED <<audio, wsState, conn, portQ, buffer, delivered,
                   emitted, nAppended, nWritten, badSeen, sockets, prevDelay>>

\* the setTimeout(startWS, 1000) callback
TimerFires ==
    /\ timers > 0
    /\ timers' = timers - 1
    /\ StartWS
    /\ last' = Idle("timer")
    /\ pre' = buffer
    /\ out' = <<>>
    /\ UNCHANGED <<audio, conn, portQ, buffer, delivered, emitted,
                   nAppended, nWritten, prevDelay>>

\* JSON.parse(evt.data) throws on text that is no JSON.
JsonParseThrows(kind) == kind = "invalid"

\* if (msg.type === "spectrogram") drawSpectrogram(msg.data)
ReachesSink(kind) == ~JsonParseThrows(kind) /\ kind \in {"spectrogram", "badmatrix"}

\* drawSpectrogram throws on a matrix with no rows or with a row that is no
\* array (matrix[0].length, matrix[row][col]).
DrawThrows(kind) == kind = "badmatrix"

\* Variant: the handler without its try/catch.
TextErrorUncaught(kind) ==
    IF JsonParseThrows(kind) THEN "SyntaxError"
    ELSE IF ReachesSink(kind) /\ DrawThrows(kind) THEN "TypeError"
    ELSE "none"

\* try { ... } catch (e) { /* ignore */ }: what leaves the handler.
TextError(kind) == "none"

\* ws.onmessage, typeof evt.data === "string"
WsOnText(kind) ==
    /\ wsState = "open"
    /\ last' = [Idle("text") EXCEPT
                   !.kind = kind,
                   !.note = IF ReachesSink(kind) THEN "draw" ELSE "none",
                   !.threw = TextError(kind)]
    /\ pre' = buffer
    /\ out' = <<>>
    /\ UNCHANGED <<audio, wsState, conn, timers, portQ, buffer, delivered,
                   emitted, nAppended, nWritten, badSeen, sockets, prevDelay>>

\* What `last` records of a chunk received: whether its first two bytes are
\* "O","P" and whether its length is a whole number of elements.
StartsWithTag(ab) == Len(ab) >= 2 /\ ab[1] = TagO /\ ab[2] = TagP
WholeElements(ab) == Len(ab) % BytesPerElement = 0

\* ws.onmessage, evt.data instanceof ArrayBuffer: which way the handler ends.
BinaryOutcome(ab, node) ==
    IF IsOpus(ab) THEN "warn"                       \* console.warn; return
    ELSE IF Float32ArrayThrows(ab) THEN "RangeError" \* new Float32Array(ab)
    ELSE IF node # "ready" THEN "TypeError"         \* playerNode is undefined
    ELSE "posted"

WsOnBinary(ab) ==
    LET outcome == BinaryOutcome(ab, audio) IN
    /\ wsState = "open"
    /\ wsState' = SocketAfterMessage(wsState, outcome)
    /\ pre' = buffer
    /\ out' = <<>>
    /\ UNCHANGED <<audio, conn, timers, buffer, emitted, nAppended, nWritten,
                   sockets, prevDelay>>
    /\ IF outcome = "posted"
       THEN \* playerNode.port.postMessage({type: "pcm", buffer}, [buffer])
            /\ Len(portQ) < MaxPort
            /\ Len(delivered) + Len(Float32Array(ab)) <= MaxSamples
            /\ portQ' = Append(portQ, PcmMessage(Float32Array(ab)))
            /\ delivered' = delivered \o Float32Array(ab)
            /\ last' = [Idle("binary") EXCEPT
                           !.tagged = StartsWithTag(ab),
                           !.aligned = WholeElements(ab),
                           !.posted = TRUE]
            /\ UNCHANGED badSeen
       ELSE /\ last' = [Idle("binary") EXCEPT
                           !.tagged = StartsWithTag(ab),
                           !.aligned = WholeElements(ab),
                           !.note = IF outcome = "warn" THEN "warn" ELSE "none",
                           !.threw = IF outcome = "warn" THEN "none" ELSE outcome]
            /\ badSeen' = TRUE
            /\ UNCHANGED <<portQ, delivered>>

\* Variant: the handler appends the payload of every message.
AnyType(type) == TRUE

\* if (data.type === 'pcm')
IsPcm(type) == type = "pcm"

\* PlayerProcessor port.onmessage
PortOnMessage ==
    /\ audio = "ready"
    /\ portQ # <<>>
    /\ LET data == Head(portQ) IN
         /\ buffer' = IF IsPcm(data.type)
                      THEN AppendSamples(buffer, data.buffer)
                      ELSE buffer
         /\ nAppended' = IF IsPcm(data.type)
                         THEN nAppended + Len(data.buffer)
                         ELSE nAppended
         /\ last' = [Idle("portmsg") EXCEPT !.kind = data.type]
    /\ portQ' = Tail(portQ)
    /\ pre' = buffer
    /\ out' = <<>>
    /\ UNCHANGED <<audio, wsState, conn, timers, delivered, emitted,
                   nWritten, badSeen, sockets, prevDelay>>

\* PlayerProcessor.process(inputs, outputs, parameters)
Process(channels, frames) ==
    /\ audio = "ready"
    /\ pre' = buffer
    /\ IF Underrun(buffer, channels, frames)
       THEN /\ out' = FillSilence(FreshPlanes(channels, frames), 0, channels)
            /\ last' = [Idle("process") EXCEPT !.channels = channels,
                           !.frames = frames, !.underrun = TRUE,
                           !.ret = ProcessReturn]
            /\ UNCHANGED <<buffer, emitted, nWritten>>
       ELSE LET r == FillFromBuffer(FreshPlanes(channels, frames), buffer,
                                    0, 0, 0, channels, frames) IN
            /\ out' = r.planes
            /\ buffer' = DropConsumed(buffer, r.bi)
            /\ emitted' = emitted \o Interleave(r.planes, channels, frames)
            /\ nWritten' = nWritten + channels * frames
            /\ last' = [Idle("process") EXCEPT !.channels = channels,
                           !.frames = frames, !.ret = ProcessReturn]
    /\ UNCHANGED <<audio, wsState, conn, timers, portQ, delivered, nAppended,
                   badSeen, sockets, prevDelay>>

Next ==
    \/ \E outcome \in {"ready", "nomodule", "noctx"} : PageLoad(outcome)
    \/ WsOnOpen
    \/ WsOnClose
    \/ WsOnError
    \/ TimerFires
    \/ \E kind \in TextKinds : WsOnText(kind)
    \/ \E ab \in Chunks : WsOnBinary(ab)
    \/ PortOnMessage
    \/ \E channels \in ChannelCounts, frames \in FrameCounts : Process(channels, frames)

Spec == Init /\ [][Next]_vars

----------------------------------------------------------------------------
(* Sequences *)

IsPrefix(s, t) == Len(s) <= Len(t) /\ SubSeq(t, 1, Len(s)) = s

IsSuffix(s, t) == Len(s) <= Len(t) /\ SubSeq(t, Len(t) - Len(s) + 1, Len(t)) = s

\* Samples of the messages still in the port, oldest first.
RECURSIVE InFlight(_)
InFlight(q) == IF q = <<>> THEN <<>> ELSE Head(q).buffer \o InFlight(Tail(q))

----------------------------------------------------------------------------
(* Steady-state workload: from a backlog of at most one chunk, and with the *)
(* tick size fixed for the run, messages totalling one tick's worth of      *)
(* samples are appended by port.onmessage, then process() runs once, over   *)
(* and over. The handlers are those of Spec; only the order in which they   *)
(* run is restricted.                                                       *)

MaxTicks == 3           \* ticks of a steady-state run

\* Valid raw-PCM chunks: untagged, a whole number of elements, not empty.
PcmChunks == { ab \in Chunks : ~IsOpus(ab) /\ ~Float32ArrayThrows(ab) /\ Len(ab) > 0 }

\* Chunks that repeat one sample value: the steady-state run is about how
\* many samples are held, so its chunks differ in length only.
UniformChunks ==
    { ab \in PcmChunks :
        \A k \in 1..Len(Float32Array(ab)) : Float32Array(ab)[k] = Float32Array(ab)[1] }

\* Buffers the run may start from.
Backlogs == {<<>>} \cup { Float32Array(ab) : ab \in PcmChunks }

\* Samples posted or appended in this round and not yet asked for by a tick.
Lead == nAppended + Len(InFlight(portQ)) - nWritten

SteadyInit ==
    /\ audio = "ready"
    /\ wsState = "open"
    /\ conn = "Connected"
    /\ timers = 0
    /\ portQ = <<>>
    /\ buffer \in Backlogs
    /\ out = <<>>
    /\ \E channels \in ChannelCounts, frames \in FrameCounts :
          last = [Idle("init") EXCEPT !.channels = channels, !.frames = frames]
    /\ pre = <<>>
    /\ delivered = <<>>
    /\ emitted = <<>>
    /\ nAppended = 0
    /\ nWritten = 0
    /\ badSeen = FALSE
    /\ sockets = 1
    /\ prevDelay = 0

\* A chunk of this round arrives and is posted; the port holds one message
\* at a time.
SteadyPost(ab) ==
    /\ portQ = <<>>
    /\ nWritten < MaxTicks * last.channels * last.frames
    /\ Lead + Len(Float32Array(ab)) <= last.channels * last.frames
    /\ portQ' = Append(portQ, PcmMessage(Float32Array(ab)))
    /\ last' = [Idle("binary") EXCEPT !.aligned = TRUE, !.posted = TRUE,
                   !.channels = last.channels, !.frames = last.frames]
    /\ pre' = buffer
    /\ out' = <<>>
    /\ UNCHANGED <<audio, wsState, conn, timers, buffer, delivered, emitted,
                   nAppended, nWritten, badSeen, sockets, prevDelay>>

\* port.onmessage appends it; `last` keeps the tick size of the run.
SteadyAppend ==
    /\ portQ # <<>>
    /\ IsPcm(Head(portQ).type)
    /\ buffer' = AppendSamples(buffer, Head(portQ).buffer)
    /\ nAppended' = nAppended + Len(Head(portQ).buffer)
    /\ portQ' = Tail(portQ)
    /\ last' = [Idle("portmsg") EXCEPT !.kind = Head(portQ).type,
                   !.channels = last.channels, !.frames = last.frames]
    /\ pre' = buffer
    /\ out' = <<>>
    /\ UNCHANGED <<audio, wsState, conn, timers, delivered, emitted,
                   nWritten, badSeen, sockets, prevDelay>>

\* The round is complete: the tick of the fixed size runs.
SteadyTick ==
    /\ portQ = <<>>
    /\ Lead = last.channels * last.frames
    /\ Process(last.channels, last.frames)

SteadyNext ==
    \/ \E ab \in UniformChunks : SteadyPost(ab)
    \/ SteadyAppend
    \/ SteadyTick

SteadySpec == SteadyInit /\ [][SteadyNext]_vars

----------------------------------------------------------------------------
(* The processor on its own: its port accepts whatever message a sender    *)
(* posts, of type 'pcm' or not, and ticks of any size run in between.      *)

\* e.data as port.onmessage reads it: a type and a payload.
PortMessages == [type : {"pcm", "other"}, buffer : Backlogs]

\* A sender posts a message to the processor's port.
PortPost(data) ==
    /\ Len(portQ) < MaxPort
    /\ Len(emitted) + Len(buffer) + Len(InFlight(portQ)) + Len(data.buffer)
          <= MaxSamples
    /\ portQ' = Append(portQ, data)
    /\ delivered' = IF IsPcm(data.type) THEN delivered \o data.buffer ELSE delivered
    /\ last' = Idle("post")
    /\ pre' = buffer
    /\ out' = <<>>
    /\ UNCHANGED <<audio, wsState, conn, timers, buffer, emitted,
                   nAppended, nWritten, badSeen, sockets, prevDelay>>

ProcessorNext ==
    \/ \E data \in PortMessages : PortPost(data)
    \/ PortOnMessage
    \/ \E channels \in ChannelCounts, frames \in FrameCounts : Process(channels, frames)

ProcessorSpec == SteadyInit /\ [][ProcessorNext]_vars

----------------------------------------------------------------------------
(* Playback under a render quantum that keeps coming: ticks of one fixed   *)
(* size, chunks arriving at any time until the stream has MaxSamples       *)
(* samples. The audio rendering thread calls process() for every quantum   *)
(* while it returns true, hence the weak fairness on the tick.             *)

\* A raw-PCM chunk arrives and is posted.
LivePost(ab) ==
    /\ Len(portQ) < MaxPort
    /\ Len(emitted) + Len(buffer) + Len(InFlight(portQ)) + Len(Float32Array(ab))
          <= MaxSamples
    /\ portQ' = Append(portQ, PcmMessage(Float32Array(ab)))
    /\ delivered' = delivered \o Float32Array(ab)
    /\ last' = [Idle("binary") EXCEPT !.aligned = TRUE, !.posted = TRUE,
                   !.channels = last.channels, !.frames = last.frames]
    /\ pre' = buffer
    /\ out' = <<>>
    /\ UNCHANGED <<audio, wsState, conn, timers, buffer, emitted,
                   nAppended, nWritten, badSeen, sockets, prevDelay>>

\* The render quantum: process() with the size of this run.
LiveTick == Process(last.channels, last.frames)

LiveNext ==
    \/ \E ab \in PcmChunks : LivePost(ab)
    \/ SteadyAppend
    \/ LiveTick

LiveSpec == SteadyInit /\ [][LiveNext]_vars /\ WF_vars(LiveTick)

----------------------------------------------------------------------------
(* Properties *)

Ticked == last.op = "process"

Required == last.frames * last.channels

\* C1: FIFO end to end. The samples written by the non-underrun ticks,
\* re-interleaved and concatenated in tick order, are always a prefix of the
\* concatenation of the posted chunks' samples in delivery order.
C1_FifoEndToEnd == IsPrefix(emitted, delivered)

\* A second or later successful tick has run, three or more samples have
\* been written (more than the largest chunk posted holds, so they came in
\* several chunks), and the first two differ.
C1_Witness ==
    /\ Ticked /\ ~last.underrun
    /\ nWritten > Required
    /\ Len(emitted) >= 3
    /\ emitted[1] # emitted[2]

\* C2: underrun determinism. After process() found fewer than
\* frameCount*channelCount samples buffered, there are channelCount planes of
\* frameCount values, all 0.0, and the buffer is what it was before the call.
C2_UnderrunDeterminism ==
    (Ticked /\ Len(pre) < Required) =>
        /\ DOMAIN out = 0..(last.channels - 1)
        /\ \A ch \in DOMAIN out :
              /\ DOMAIN out[ch] = 0..(last.frames - 1)
              /\ \A f \in DOMAIN out[ch] : out[ch][f] = Silence
        /\ buffer = pre
        /\ Len(buffer) = Len(pre)

\* An underrun tick on a buffer holding a partial frame set, two planes asked.
C2_Witness ==
    /\ Ticked
    /\ last.channels = 2
    /\ Len(pre) > 0 /\ Len(pre) < Required
    /\ Len(pre) % last.channels # 0

\* C3: successful drain. After process() found at least
\* frameCount*channelCount samples buffered, plane[ch][f] is the buffered
\* sample at index f*channelCount+ch and the buffer is the old buffer without
\* its first frameCount*channelCount samples.
C3_SuccessfulDrain ==
    (Ticked /\ Len(pre) >= Required) =>
        /\ \A f \in 0..(last.frames - 1) : \A ch \in 0..(last.channels - 1) :
              out[ch][f] = pre[f * last.channels + ch + 1]
        /\ buffer = SubSeq(pre, Required + 1, Len(pre))

\* A drain of two frames of two channels whose second and third samples
\* differ, so that the interleaving order shows.
C3_Witness ==
    /\ Ticked
    /\ last.channels = 2 /\ last.frames = 2
    /\ Len(pre) >= Required
    /\ pre[2] # pre[3]

\* C4: exact-fit drain. After process() found exactly
\* frameCount*channelCount samples buffered, the tick was no underrun, the
\* planes hold the buffered samples and the buffer is empty.
C4_ExactFitDrain ==
    (Ticked /\ Len(pre) = Required) =>
        /\ ~last.underrun
        /\ Interleave(out, last.channels, last.frames) = pre
        /\ buffer = <<>>
        /\ Len(buffer) = 0

\* Everything ever appended was exactly one tick's worth, and that tick ran.
C4_Witness ==
    /\ Ticked
    /\ last.channels = 2 /\ last.frames = 2
    /\ Len(pre) = Required
    /\ nAppended = Required
    /\ nWritten = Required

\* C5: render totality. Every process() call completes without throwing,
\* has assigned every slot of every requested plane and returns true.
C5_RenderTotality ==
    Ticked =>
        /\ last.threw = "none"
        /\ last.ret = TRUE
        /\ DOMAIN out = 0..(last.channels - 1)
        /\ \A ch \in DOMAIN out :
              /\ DOMAIN out[ch] = 0..(last.frames - 1)
              /\ \A f \in DOMAIN out[ch] : out[ch][f] # Unwritten

\* An underrun tick on a non-empty buffer.
C5_Witness ==
    /\ Ticked /\ last.underrun
    /\ Len(pre) > 0
    /\ last.ret = TRUE

\* C6: sample conservation. The buffer length is the number of samples
\* appended minus the number written by non-underrun ticks, and what was
\* written, what is buffered and what is still in the port make up exactly
\* what was posted: nothing lost, nothing twice, nothing dropped for size.
C6_SampleConservation ==
    /\ Len(buffer) >= 0
    /\ Len(buffer) = nAppended - nWritten
    /\ nWritten = Len(emitted)
    /\ emitted \o buffer \o InFlight(portQ) = delivered

\* Appends and ticks have interleaved: samples were written, others are
\* buffered, and a message is still in the port.
C6_Witness ==
    /\ nWritten > 0
    /\ Len(buffer) > 0
    /\ portQ # <<>>
    /\ InFlight(portQ) # <<>>

\* The reserved tag: the first two bytes are "O","P".
HasTag(ab) == Len(ab) >= 2 /\ ab[1] = TagO /\ ab[2] = TagP

\* The floats decoded from the first 4*floor(L/4) bytes of a chunk.
FloorSamples(ab) ==
    Float32Array(SubSeq(ab, 1, BytesPerElement * (Len(ab) \div BytesPerElement)))

\* C7: classifier tag drop. With the worklet running, a tagged chunk is
\* warned about and nothing is posted or appended; every other chunk, those
\* of length 0 or 1 included, is forwarded to the worklet.
C7_ClassifierTagDrop ==
    [][\A ab \in Chunks :
          (audio = "ready" /\ WsOnBinary(ab)) =>
              IF HasTag(ab)
              THEN last'.note = "warn" /\ portQ' = portQ /\ buffer' = buffer
              ELSE last'.posted /\ Len(portQ') = Len(portQ) + 1]_vars

\* C8: unaligned payload truncation. With the worklet running, an untagged
\* chunk of any byte length L is no error and posts exactly the floor(L/4)
\* floats decoded from its first 4*floor(L/4) bytes.
C8_UnalignedTruncation ==
    [][\A ab \in Chunks :
          (audio = "ready" /\ WsOnBinary(ab) /\ ~HasTag(ab)) =>
              /\ last'.threw = "none"
              /\ portQ' = Append(portQ, [type |-> "pcm", buffer |-> FloorSamples(ab)])
              /\ delivered' = delivered \o FloorSamples(ab)]_vars

\* The last chunk received was tagged, or of a length that is no multiple
\* of four bytes.
BadChunk(l) == l.tagged \/ ~l.aligned

\* C9: chunk-level errors never interrupt the stream. Handling any chunk
\* leaves the socket open and schedules no reconnect; a tagged or unaligned
\* chunk leaves the buffer and the messages already posted as they are; and
\* on a socket that has seen such a chunk, with the worklet running, a valid
\* chunk is still posted, behind everything posted before it.
C9_ChunkErrorsAbsorbed ==
    [][last'.op = "binary" =>
          /\ wsState' = "open"
          /\ timers' = timers
          /\ conn' = conn
          /\ BadChunk(last') =>
                /\ buffer' = buffer
                /\ IsPrefix(portQ, portQ')
                /\ IsPrefix(delivered, delivered')
          /\ (audio = "ready" /\ badSeen /\ ~BadChunk(last')) =>
                /\ last'.posted
                /\ Len(portQ') = Len(portQ) + 1
                /\ IsPrefix(portQ, portQ')
                /\ portQ'[Len(portQ')].type = "pcm"
                /\ delivered' = delivered \o portQ'[Len(portQ')].buffer
                /\ buffer' = buffer]_vars

\* A valid chunk was posted on a socket that had seen a bad chunk, while the
\* buffer held samples; the socket is still open.
C9_Witness ==
    /\ last.op = "binary" /\ last.posted /\ ~BadChunk(last)
    /\ badSeen
    /\ wsState = "open"
    /\ buffer # <<>>
    /\ portQ # <<>>

\* C10: reset on teardown/reconnect. Once the socket has closed, or the
\* reconnect timer has started the next one, the Frame Buffer is empty.
C10_ResetOnTeardown ==
    (last.op \in {"close", "timer"}) => buffer = <<>>

\* C11: steady-state memory bound. In a run of matched appends and ticks the
\* buffer never holds more than the backlog it started from plus one tick's
\* worth of samples, however many ticks have run.
C11_SteadyStateBound ==
    Len(buffer) <= (MaxChunkBytes \div BytesPerElement) + last.channels * last.frames

\* The third tick of a run of two-channel, two-frame ticks has drained a
\* buffer that started with a backlog, which is still there.
C11_Witness ==
    /\ Ticked /\ ~last.underrun
    /\ last.channels = 2 /\ last.frames = 2
    /\ nWritten >= 3 * Required
    /\ Len(buffer) > 0

\* C12: DeviceUnavailable isolation. Once initAudio has failed, the status
\* display shows the failure, the socket has been started, and no binary
\* chunk makes the message handler throw.
C12_DeviceUnavailableIsolation ==
    (audio \in {"nomodule", "noctx"}) =>
        /\ conn \notin {"", "Connected", "Disconnected"}
        /\ wsState # "none"
        /\ (last.op = "binary" => last.threw = "none")

\* C13: text control messages are decoupled from audio. A text message of
\* any kind posts nothing to the worklet and leaves the buffer and the
\* socket as they are, reaches the sink exactly when its type is
\* "spectrogram", and lets no error out of the handler.
C13_TextDecoupled ==
    [][last'.op = "text" =>
          /\ portQ' = portQ
          /\ buffer' = buffer
          /\ delivered' = delivered
          /\ nAppended' = nAppended
          /\ wsState' = wsState
          /\ (last'.note = "draw") = (last'.kind \in {"spectrogram", "badmatrix"})
          /\ last'.threw = "none"]_vars

\* A spectrogram message with a malformed matrix was handled while samples
\* were buffered and a message was in the port.
C13_Witness ==
    /\ last.op = "text" /\ last.kind = "badmatrix"
    /\ buffer # <<>>
    /\ portQ # <<>>

\* C14: connection-status indicator. The display shows the connected state
\* exactly while the socket is open, and a state of its own, neither
\* connected nor disconnected, while a reconnect is pending or under way.
C14_StatusIndicator ==
    /\ (conn = "Connected") = (wsState = "open")
    /\ (timers > 0 \/ (wsState = "connecting" /\ conn # "")) =>
          conn \notin {"", "Connected", "Disconnected"}

\* C15: ingest runs off the render context. The append into the Frame
\* Buffer runs in the delivery context, never in the render context.
C15_IngestOffRender ==
    (last.op = "portmsg") => Context(last.op) = "delivery"

\* C16: reconnect with backoff. Every close schedules exactly one new
\* connection attempt, and when the attempt that just failed had itself
\* been scheduled by a close, the new delay is longer than the one before.
C16_ReconnectBackoff ==
    [][last'.op = "close" =>
          /\ timers' = timers + 1
          /\ (prevDelay > 0 => prevDelay' > prevDelay)]_vars

\* C19: single connection. At most one socket is connecting or open and at
\* most one reconnect timer is pending; a socket is made only by the load
\* listener, or by the timer while the socket before it is closed.
C19_SingleConnection ==
    /\ [](sockets <= 1 /\ timers <= 1)
    /\ [][sockets' > sockets =>
            /\ sockets' = sockets + 1
            /\ \/ last'.op = "load" /\ wsState = "none"
               \/ last'.op = "timer" /\ wsState = "closed" /\ sockets = 0]_vars

\* A socket has closed, the timer that close scheduled has fired and the
\* socket it made is connecting.
C19_Witness ==
    /\ last.op = "timer"
    /\ sockets = 1 /\ timers = 0
    /\ wsState = "connecting"
    /\ conn = "Disconnected"

\* C17: role discipline on the Frame Buffer. An append keeps the old buffer
\* as a prefix of the new one and lengthens it by exactly the payload; a
\* message whose type is not 'pcm' leaves the buffer as it was; a tick
\* leaves a suffix of the old buffer.
C17_RoleDiscipline ==
    [][/\ (last'.op = "portmsg" /\ last'.kind = "pcm") =>
            /\ IsPrefix(buffer, buffer')
            /\ Len(buffer') = Len(buffer) + Len(Head(portQ).buffer)
       /\ (last'.op = "portmsg" /\ last'.kind # "pcm") => buffer' = buffer
       /\ last'.op = "process" => IsSuffix(buffer', buffer)]_vars

\* A message of another type has been handled while samples were buffered,
\* after an earlier tick had consumed some.
C17_Witness ==
    /\ last.op = "portmsg" /\ last.kind = "other"
    /\ pre # <<>> /\ buffer = pre
    /\ nWritten > 0

\* Sample values the chunks can carry.
SampleValues == UNION { { b[j] : j \in 1..Len(b) } : b \in Backlogs }

\* The samples appended so far, written or still buffered, oldest first.
Stream == emitted \o buffer

\* Position of the last sample of the frameCount*channelCount block that
\* holds position i.
BlockEnd(i) == (((i - 1) \div Required) + 1) * Required

AllSilent(planes) == \A ch \in DOMAIN planes : \A f \in DOMAIN planes[ch] : planes[ch][f] = Silence

\* C18: playback progress. With ticks of a fixed size that keep occurring,
\* an appended sample whose block is complete in the buffer is eventually
\* written to the output, at its place in the stream; the buffer eventually
\* stays below frameCount*channelCount; and a tick that finds it below
\* outputs silence and leaves the residual samples buffered.
C18_PlaybackProgress ==
    /\ \A i \in 1..MaxSamples : \A v \in SampleValues :
          (Len(Stream) >= BlockEnd(i) /\ Stream[i] = v)
             ~> (Len(emitted) >= i /\ emitted[i] = v)
    /\ <>[](Len(buffer) < Required)
    /\ [][(Len(buffer) < Required /\ last'.op = "process") =>
            /\ last'.underrun
            /\ AllSilent(out')
            /\ buffer' = buffer]_vars

\* After at least one block was written, a tick has found a residue shorter
\* than a block, with nothing left in the port.
C18_Witness ==
    /\ last.op = "process" /\ last.underrun
    /\ nWritten > 0
    /\ buffer # <<>> /\ Len(buffer) < Required
    /\ portQ = <<>>
    /\ AllSilent(out)

====
